---- MODULE Spec2Model ----
(***************************************************************************)
(* Compact API-token authentication of release-agent:                      *)
(*   src/modules/auth/tokens.py   issuance, compact codec, verification    *)
(*   src/db/services.py           SASessionUOW (unit of work)              *)
(*   src/db/repositories.py       TokenRepository                          *)
(*   src/modules/admin/views      admin actions on tokens, users, releases *)
(*   src/modules/api              public list of releases, releases API    *)
(*   src/services/cache.py        InMemoryCache, invalidate_release_cache  *)
(*   src/modules/cli/management.py  update_user                            *)
(*                                                                         *)
(* Strings are sequences of one-character strings.  Time is counted in     *)
(* ticks, TicksPerSec ticks to the second, so that an instant can carry a  *)
(* sub-second part.  The HMAC of the signing engine is a table that is     *)
(* filled when the key holder signs: a signature verifies iff the key      *)
(* holder produced it for that signing input.                              *)
(***************************************************************************)
EXTENDS Integers, Sequences, FiniteSets, TLC

\* ------------------------------------------------------------------ bounds
MaxNow == 2
TicksPerSec == 2
MaxIssued == 1
MaxUsers == 1
MaxIdents == 1
MaxViewers == 2
MaxNaps == 3
MaxCalls == 2
MaxReleases == 3
MaxRevs == 1

\* ------------------------------------------------------- program constants
\* length of the base64url signature segment of the configured algorithm
SigLen == 43
\* datetime.max in whole seconds of the model's epoch (year 9999)
DatetimeMaxSec == 9999
\* DEFAULT_CACHE_TTL, seconds
DEFAULT_CACHE_TTL == 3600
\* the ttl insert_model asks the display cache for, seconds
TokenDisplayTtl == 10
\* the default of the query parameter limit of get_active_releases
DefaultLimit == 10

\* ---------------------------------------------------------------- strings
Max(a, b) == IF a >= b THEN a ELSE b

DecimalChars == <<"0", "1", "2", "3", "4", "5", "6", "7", "8", "9">>

\* "^" stands for U+00B2 SUPERSCRIPT TWO: numeric, but not a decimal digit
NumericOnlyChars == {"^"}

WhitespaceChars == {" "}

IsDecimalChar(c) == \E i \in 1..10 : DecimalChars[i] = c

DecimalValue(c) == (CHOOSE i \in 1..10 : DecimalChars[i] = c) - 1

\* str.isnumeric(): non-empty and every character has a numeric value
isnumeric(s) ==
    /\ Len(s) > 0
    /\ \A i \in 1..Len(s) : IsDecimalChar(s[i]) \/ s[i] \in NumericOnlyChars

\* int(s) accepts decimal digits only
IntParsable(s) == Len(s) > 0 /\ \A i \in 1..Len(s) : IsDecimalChar(s[i])

RECURSIVE IntOf(_)
IntOf(s) ==
    IF Len(s) = 0 THEN 0
    ELSE 10 * IntOf(SubSeq(s, 1, Len(s) - 1)) + DecimalValue(s[Len(s)])

RECURSIVE StrOf(_)
StrOf(n) ==
    IF n < 10 THEN <<DecimalChars[n + 1]>>
    ELSE StrOf(n \div 10) \o <<DecimalChars[(n % 10) + 1]>>

\* f"{n:0>3}": left-pad with "0" to at least 3 characters
RECURSIVE ZeroPad3(_)
ZeroPad3(s) == IF Len(s) >= 3 THEN s ELSE ZeroPad3(<<"0">> \o s)

\* s[:-n]
SliceHead(s, n) == IF n = 0 THEN <<>> ELSE SubSeq(s, 1, Max(Len(s) - n, 0))

\* s[-n:]
SliceTail(s, n) == IF n = 0 THEN s ELSE SubSeq(s, Max(Len(s) - n, 0) + 1, Len(s))

\* s.split(sep) for a one-character separator
RECURSIVE Split(_, _)
Split(s, sep) ==
    IF \A i \in 1..Len(s) : s[i] # sep THEN <<s>>
    ELSE LET k == CHOOSE i \in 1..Len(s) : s[i] = sep /\ \A j \in 1..(i - 1) : s[j] # sep
         IN <<SubSeq(s, 1, k - 1)>> \o Split(SubSeq(s, k + 1, Len(s)), sep)

Marker == <<"B", "e", "a", "r", "e", "r">>

\* s.replace(m, ""): every non-overlapping occurrence, leftmost first
RECURSIVE RemoveAll(_, _)
RemoveAll(s, m) ==
    IF Len(s) < Len(m) THEN s
    ELSE IF SubSeq(s, 1, Len(m)) = m THEN RemoveAll(SubSeq(s, Len(m) + 1, Len(s)), m)
    ELSE <<s[1]>> \o RemoveAll(SubSeq(s, 2, Len(s)), m)

\* s.strip()
RECURSIVE Strip(_)
Strip(s) ==
    IF Len(s) = 0 THEN s
    ELSE IF s[1] \in WhitespaceChars THEN Strip(SubSeq(s, 2, Len(s)))
    ELSE IF s[Len(s)] \in WhitespaceChars THEN Strip(SubSeq(s, 1, Len(s) - 1))
    ELSE s

\* ------------------------------------------------------------ configuration
\* header segment of a token of the configured algorithm (settings.jwt_algorithm)
HeaderSeg == <<"h", "d", "r">>

\* expires_at = None
None == -1

\* variant: datetime.min for datetime.max
DatetimeMin == (DatetimeMaxSec - DatetimeMaxSec) * TicksPerSec

\* datetime.max as an instant
DatetimeMax == DatetimeMaxSec * TicksPerSec + (TicksPerSec - 1)

\* the instant of a whole number of seconds
SecToTicks(sec) == sec * TicksPerSec

\* timegm(dt.utctimetuple()): whole seconds, the sub-second part is dropped
Timestamp(instant) == instant \div TicksPerSec

\* ---------------------------------------------------------- SigningEngine
\* payload segment: the encoded claims {sub, exp}
PayloadSeg(sub, expSec) == <<"p">> \o sub \o <<"_">> \o StrOf(expSec)

PayloadWellFormed(seg) ==
    /\ Len(seg) >= 1
    /\ seg[1] = "p"
    /\ LET parts == Split(SubSeq(seg, 2, Len(seg)), "_")
       IN Len(parts) = 2 /\ IntParsable(parts[2])

PayloadSub(seg) == Split(SubSeq(seg, 2, Len(seg)), "_")[1]

PayloadExp(seg) == IntOf(Split(SubSeq(seg, 2, Len(seg)), "_")[2])

\* the signature no caller has been given
UnreleasedSig == [i \in 1..SigLen |-> "U"]

PadSig(core) == core \o [i \in 1..(SigLen - Len(core)) |-> "A"]

\* signatures the HMAC can come out as
Signatures == {PadSig(<<"s">>), PadSig(Marker)}

SigningInput(sub, exp) == HeaderSeg \o <<".">> \o PayloadSeg(sub, Timestamp(exp))

HmacOf(table, input) == IF input \in DOMAIN table THEN table[input] ELSE UnreleasedSig

\* jwt_encode: "header.payload.signature"
jwt_encode(sub, expires_at, table) ==
    LET exp == IF expires_at = None THEN DatetimeMax ELSE expires_at
        input == SigningInput(sub, exp)
    IN input \o <<".">> \o HmacOf(table, input)

DecodeOk(sub, exp) == [status |-> "ok", detail |-> "", sub |-> sub, exp |-> exp]
DecodeFail(status, detail) == [status |-> status, detail |-> detail, sub |-> <<>>, exp |-> 0]

\* base64url characters whose low bits are dropped when they end a segment:
\* with 3 characters in the last group the low 2 bits (A, B, C, D decode
\* alike), with 2 characters the low 4 bits (A .. P decode alike)
Low2Bits == {"A", "B", "C", "D"}
Low4Bits == {"A", "B", "C", "D", "E", "F", "G", "H", "I", "J", "K", "L", "M", "N", "O", "P"}

\* base64url_decode of a segment: the bytes, written as the canonical text
\* that encodes them; <<"!">> when the length admits no padding
base64url_decode(seg) ==
    LET rem == Len(seg) % 4
        last == seg[Len(seg)]
        head == SubSeq(seg, 1, Len(seg) - 1)
    IN IF rem = 1 THEN <<"!">>
       ELSE IF rem = 3 /\ last \in Low2Bits THEN head \o <<"A">>
       ELSE IF rem = 2 /\ last \in Low4Bits THEN head \o <<"A">>
       ELSE seg

\* variant: the signature is not verified
jwt_decode_unverified(jwt_token, table, now) ==
    LET segs == Split(jwt_token, ".")
    IN IF Len(segs) # 3 THEN DecodeFail("InvalidTokenError", "segments")
       ELSE IF segs[1] # HeaderSeg THEN DecodeFail("InvalidTokenError", "algorithm")
       ELSE IF ~PayloadWellFormed(segs[2]) THEN DecodeFail("InvalidTokenError", "payload")
       ELSE IF SecToTicks(PayloadExp(segs[2])) <= now
       THEN DecodeFail("ExpiredSignatureError", "expired")
       ELSE DecodeOk(PayloadSub(segs[2]), SecToTicks(PayloadExp(segs[2])))

\* variant: the comparison is strict, a token still passes at its expiry
jwt_expired_strict(expSec, now) == SecToTicks(expSec) < now

\* variant: a leeway of one second is granted
jwt_expired_leeway(expSec, now) == SecToTicks(expSec) + TicksPerSec <= now

\* variant: the expiry is not looked at
jwt_expired_never(expSec, now) == FALSE

\* a token is expired when exp <= now
jwt_expired(expSec, now) == SecToTicks(expSec) <= now

\* jwt_decode: jwt.decode checks structure, algorithm, signature (the bytes
\* the signature segment decodes to), then exp
jwt_decode(jwt_token, table, now) ==
    LET segs == Split(jwt_token, ".")
    IN IF Len(segs) # 3 THEN DecodeFail("InvalidTokenError", "segments")
       ELSE IF segs[1] # HeaderSeg THEN DecodeFail("InvalidTokenError", "algorithm")
       ELSE LET input == segs[1] \o <<".">> \o segs[2]
            IN IF ~(/\ input \in DOMAIN table
                    /\ base64url_decode(table[input]) = base64url_decode(segs[3]))
               THEN DecodeFail("InvalidTokenError", "signature")
               ELSE IF ~PayloadWellFormed(segs[2])
               THEN DecodeFail("InvalidTokenError", "payload")
               ELSE IF jwt_expired(PayloadExp(segs[2]), now)
               THEN DecodeFail("ExpiredSignatureError", "expired")
               ELSE DecodeOk(PayloadSub(segs[2]), SecToTicks(PayloadExp(segs[2])))

\* ------------------------------------------------------------- TokenHasher
hash_token(token) == <<"sha512:">> \o token

\* ------------------------------------------------------------- TokenIssuer
\* f"{random.randint(100, 999):0>3}{uuid.uuid4().hex[-6:]}"
token_identifier(rand, tail) == ZeroPad3(StrOf(rand)) \o tail

\* variant: the length is written without padding to three characters
sign_len_prefix_unpadded(signature_part) == StrOf(Len(signature_part))

sign_len_prefix(signature_part) == ZeroPad3(StrOf(Len(signature_part)))

\* variant: the separator between payload and signature is kept
make_api_token_with_separator(expires_at, ident, table) ==
    LET expires == IF expires_at = None THEN DatetimeMax ELSE expires_at
        parts == Split(jwt_encode(ident, expires, table), ".")
    IN [value |-> parts[2] \o <<".">> \o parts[3] \o sign_len_prefix(parts[3]),
        hashed_value |-> hash_token(ident)]

\* variant: the storage key is the identifier itself, not hashed
make_api_token_raw_key(expires_at, ident, table) ==
    LET expires == IF expires_at = None THEN DatetimeMax ELSE expires_at
        parts == Split(jwt_encode(ident, expires, table), ".")
    IN [value |-> parts[2] \o parts[3] \o sign_len_prefix(parts[3]),
        hashed_value |-> ident]

\* variant: the storage key is the hash of the whole bearer value
make_api_token_hash_value(expires_at, ident, table) ==
    LET expires == IF expires_at = None THEN DatetimeMax ELSE expires_at
        parts == Split(jwt_encode(ident, expires, table), ".")
        value == parts[2] \o parts[3] \o sign_len_prefix(parts[3])
    IN [value |-> value, hashed_value |-> hash_token(value)]

make_api_token(expires_at, ident, table) ==
    LET expires == IF expires_at = None THEN DatetimeMax ELSE expires_at
        encrypted_token == jwt_encode(ident, expires, table)
        parts == Split(encrypted_token, ".")
        payload_part == parts[2]
        signature_part == parts[3]
    IN [value |-> payload_part \o signature_part \o sign_len_prefix(signature_part),
        hashed_value |-> hash_token(ident)]

\* ------------------------------------------------------------ CompactCodec
Example == <<"e", "x">>

\* lines 139-149: the token handed to jwt_decode, rebuilt from the compact
\* one whose length suffix passed the check and was read as a number
checking_token(token, table) ==
    LET header_part == Split(jwt_encode(Example, None, table), ".")[1]
        tok == SliceHead(token, 3)
        signature_length == IntOf(SliceTail(token, 3))
        payload_part == SliceHead(tok, signature_length)
        signature_part == SliceTail(tok, signature_length)
    IN header_part \o <<".">> \o payload_part \o <<".">> \o signature_part

decode_api_token(token, table, now) ==
    LET prefix == SliceTail(token, 3)
    IN IF ~isnumeric(prefix) THEN DecodeFail("http401", "Invalid token signature")
       ELSE IF ~IntParsable(prefix) THEN DecodeFail("ValueError", "invalid literal for int()")
       ELSE LET payload == jwt_decode(checking_token(token, table), table, now)
            IN IF payload.status = "ExpiredSignatureError"
               THEN DecodeFail("http401", "Token expired")
               ELSE IF payload.status = "InvalidTokenError"
               THEN DecodeFail("http401", "Invalid token")
               ELSE payload

\* ------------------------------------------------------------------- state
VARIABLES
    now,          \* the clock, in ticks
    hmac,         \* signing input -> signature, for every input the key holder signed
    issued,       \* what the calls of make_api_token returned, in call order
    tokens,       \* table "tokens": row id -> row
    users,        \* table "users": user id -> row
    cache,        \* InMemoryCache: the set of entries [key, value, last_update]
    probe,        \* the last direct call of decode_api_token: input, instant, result,
                  \* the token it handed to jwt_decode
    req,          \* the request under verification: method, Authorization header
    vpc,          \* position of verify_api_token
    vlocal,       \* its locals: auth_token, hashed_token, token (the row found)
    vresult,      \* what it returned or raised
    vtrace,       \* what it did and met: decodings, store queries, store faults,
                  \* whether the credential was unexpired when decoded,
                  \* whether the store changed while it was suspended
    admin,        \* the call of TokenAdminView._set_active that has just committed
    details,      \* the calls of get_object_for_details in flight: position, token id
    viewed,       \* what the last such call put on the page: id, raw_token, age of the entry
    shown,        \* the ids whose raw token a details page has shown, in order
    naps,         \* how many times the clock was let run
    releases,     \* table "releases": release id -> row (exists, is_active, rev)
    pages,        \* the cache behind get_cache(): entries [key, value, last_update]
    reader,       \* the call of get_active_releases: position, cache key, the page
                  \* it read or served, whether it came from the cache
    panel,        \* the call of ReleaseAdminView._set_active: position
    uow,          \* a SASessionUOW in use: position, mode, commit mark, the calls made
                  \* on its session, what its exit met and raised
    mgmt,         \* the last call of the management command's update_user
    mem,          \* an InMemoryCache with its two dictionaries kept apart:
                  \* _data and _last_update, each key -> value
    memcall,      \* the last call on it: operation, key, instant, what get returned
    lastset       \* per key, the last set as its caller knows it: value, instant,
                  \* whether an invalidation has covered the key since

vars == <<now, hmac, issued, tokens, users, cache, probe, req, vpc, vlocal, vresult, vtrace, admin,
          details, viewed, shown, naps, releases, pages, reader, panel, uow, mgmt,
          mem, memcall, lastset>>

\* the state of the admin's details pages and of the long clock
displayVars == <<details, viewed, shown, naps>>

\* the state of the releases, their cached pages and the calls on them
releaseVars == <<releases, pages, reader, panel>>

\* a unit of work on its own, and the management command
uowVars == <<uow, mgmt>>

\* the in-memory cache on its own
memVars == <<mem, memcall, lastset>>

UserIds == 1..MaxUsers

\* random.randint(100, 999) and uuid4().hex[-6:], as far as the model draws them
RandInts == 100..(99 + MaxIdents)
UuidTails == {<<"a", "b", "c", "d", "e", "f">>}

Identifiers == {token_identifier(r, t) : r \in RandInts, t \in UuidTails}

\* expires_at as the admin form passes it
ExpiryInputs == {None} \cup 0..(MaxNow + 1)

\* a row that was in the table before: the token of an earlier issuance,
\* whose raw value nobody holds any more
SeedIdent == token_identifier(500, <<"0", "0", "0", "0", "0", "0">>)
SeedRow == [token |-> hash_token(SeedIdent), user_id |-> 1, is_active |-> TRUE,
            expires_at |-> None, updated_at |-> None]

NoRow == [found |-> FALSE, id |-> 0, is_active |-> FALSE, user_active |-> FALSE, token |-> <<>>]

NoResult == [kind |-> "none", detail |-> "", identity |-> <<>>]
Returned(identity) == [kind |-> "ok", detail |-> "", identity |-> identity]
Http401(detail) == [kind |-> "http401", detail |-> detail, identity |-> <<>>]
Raised(exc) == [kind |-> "error", detail |-> exc, identity |-> <<>>]

NoLocal == [auth_token |-> <<>>, hashed_token |-> <<>>, token |-> NoRow]
NoTrace == [decodes |-> 0, queries |-> 0, fault |-> "", fresh |-> FALSE, dirty |-> FALSE]
NoProbe == [input |-> <<>>, at |-> 0, result |-> DecodeFail("none", ""), checking_token |-> <<>>]
NoRequest == [method |-> "GET", present |-> FALSE, header |-> <<>>]
NoAdmin == [ids |-> {}, is_active |-> FALSE]

\* the admin's browser tabs asking for a details page at the same time
Viewers == 1..MaxViewers
NoDetails == [pc |-> "idle", id |-> 0]
NoView == [id |-> 0, raw_token |-> <<>>, age |-> 0]

\* the releases, and the pages of the public list that are asked for
ReleaseIds == 1..MaxReleases
Offsets == {0, 1}

\* CACHE_KEY_ACTIVE_RELEASES_PAGE.format(offset=offset, limit=limit)
PagePrefix == "active_releases_page_"
PageKey(offset, limit) == [prefix |-> PagePrefix, offset |-> offset, limit |-> limit]

NoKey == [prefix |-> "", offset |-> 0, limit |-> 0]
NoPage == [items |-> {}, total |-> 0]
NoReader == [pc |-> "idle", key |-> NoKey, page |-> NoPage, from_cache |-> FALSE]
NoPanel == [pc |-> "idle"]

\* keys of the in-memory cache, under two prefixes, and the values put
\* under them
MemKeys == {<<"a", "1">>, <<"t", "1">>}
MemValues == {"v", "w"}
NoValue == "None"
NoCall == [op |-> "none", key |-> <<>>, at |-> 0, value |-> NoValue]
NoSet == [value |-> NoValue, at |-> 0, live |-> FALSE]

NoFaults == [flush |-> FALSE, commit |-> FALSE, rollback |-> FALSE, close |-> FALSE]
NoUow == [pc |-> "none", owns_session |-> FALSE, need_to_commit |-> FALSE, marked |-> FALSE,
          exc |-> "", faults |-> NoFaults, calls |-> <<>>, raised |-> ""]
NoMgmt == [called |-> FALSE, found |-> FALSE, faults |-> NoFaults, lookup_raises |-> FALSE,
           returned |-> FALSE, committed |-> FALSE]

Init ==
    /\ now = 0
    /\ hmac = <<>>
    /\ issued = <<>>
    /\ tokens = <<SeedRow>>
    /\ users \in [UserIds -> [is_active : BOOLEAN]]
    /\ cache = {}
    /\ probe = NoProbe
    /\ req = NoRequest
    /\ vpc = "idle"
    /\ vlocal = NoLocal
    /\ vresult = NoResult
    /\ vtrace = NoTrace
    /\ admin = NoAdmin
    /\ details = [v \in Viewers |-> NoDetails]
    /\ viewed = NoView
    /\ shown = <<>>
    /\ naps = 0
    /\ releases = [r \in ReleaseIds |-> [exists |-> r < MaxReleases, is_active |-> r = 1,
                                          rev |-> 0]]
    /\ pages = {}
    /\ reader = NoReader
    /\ panel = NoPanel
    /\ uow = NoUow
    /\ mgmt = NoMgmt
    /\ mem = [data |-> <<>>, last_update |-> <<>>]
    /\ memcall = NoCall
    /\ lastset = [k \in MemKeys |-> NoSet]

\* The frame of a call that has returned or raised (its locals, its result) is
\* there to be looked at until the next step of anything else, and then gone.
DropFrames ==
    /\ probe' = NoProbe
    /\ admin' = NoAdmin
    /\ IF vpc = "done"
       THEN /\ req' = NoRequest
            /\ vpc' = "idle"
            /\ vlocal' = NoLocal
            /\ vresult' = NoResult
            /\ vtrace' = NoTrace
       ELSE UNCHANGED <<req, vpc, vlocal, vresult, vtrace>>

\* the same, at a step that commits a change to the store: a verification that
\* is suspended at its lookup has the store change under it
DropFramesDirty ==
    /\ probe' = NoProbe
    /\ admin' = NoAdmin
    /\ IF vpc = "done"
       THEN /\ req' = NoRequest
            /\ vpc' = "idle"
            /\ vlocal' = NoLocal
            /\ vresult' = NoResult
            /\ vtrace' = NoTrace
       ELSE /\ vtrace' = IF vpc = "lookup" THEN [vtrace EXCEPT !.dirty = TRUE] ELSE vtrace
            /\ UNCHANGED <<req, vpc, vlocal, vresult>>

\* ------------------------------------------------------------------- clock
Tick ==
    /\ now < MaxNow
    /\ now' = now + 1
    /\ DropFrames
    /\ UNCHANGED <<hmac, issued, tokens, users, cache>>
    /\ UNCHANGED displayVars
    /\ UNCHANGED releaseVars
    /\ UNCHANGED uowVars
    /\ UNCHANGED memVars

\* -------------------------------------------------------- token store rows
RowIds == 1..Len(tokens)

\* TokenRepository.get_by_token: the first row whose token column is the hash
get_by_token(table, usertable, hashed_token) ==
    LET hits == {i \in 1..Len(table) : table[i].token = hashed_token}
    IN IF hits = {} THEN NoRow
       ELSE LET i == CHOOSE j \in hits : \A k \in hits : j <= k
            IN [found |-> TRUE, id |-> i, is_active |-> table[i].is_active,
                user_active |-> usertable[table[i].user_id].is_active,
                token |-> table[i].token]

\* variant: the UPDATE without its WHERE clause
set_active_all_rows(table, token_ids, is_active, at) ==
    [i \in 1..Len(table) |-> [table[i] EXCEPT !.is_active = is_active, !.updated_at = at]]

\* TokenRepository.set_active -> update_by_ids: UPDATE tokens SET is_active WHERE id IN ids
\* (the column updated_at has onupdate=utcnow)
set_active(table, token_ids, is_active, at) ==
    [i \in 1..Len(table) |->
        IF i \in token_ids
        THEN [table[i] EXCEPT !.is_active = is_active, !.updated_at = at]
        ELSE table[i]]

\* ------------------------------------------------------------ InMemoryCache
\* variant: the key is left in place
cache_invalidate_nothing(entries, key) == entries

\* InMemoryCache.invalidate(key)
cache_invalidate(entries, key) == {e \in entries : e.key # key}

\* InMemoryCache.set: value and time.monotonic() under the key; ttl is not used
cache_set(entries, key, value, ttl, at) ==
    {e \in entries : e.key # key} \cup {[key |-> key, value |-> value, last_update |-> at]}

\* InMemoryCache.get: None (hit FALSE) for a key that is not there or is older
\* than the cache's own ttl, which is then dropped; else the value
cache_get(entries, key, at) ==
    IF ~\E e \in entries : e.key = key
    THEN [hit |-> FALSE, value |-> <<>>, entries |-> entries]
    ELSE LET e == CHOOSE x \in entries : x.key = key
         IN IF at - e.last_update > DEFAULT_CACHE_TTL * TicksPerSec
            THEN [hit |-> FALSE, value |-> <<>>, entries |-> entries \ {e}]
            ELSE [hit |-> TRUE, value |-> e.value, entries |-> entries]

\* ------------------------------------------- TokenAdminView.insert_model
\* make_api_token, INSERT of the row with the hash (column token is unique),
\* then the raw value goes to the display cache.  An INSERT that raises (the
\* store is down, the hash is taken) leaves a signed value without a row.
insert_model ==
    /\ Len(issued) < MaxIssued
    /\ \E expires_at \in ExpiryInputs, ident \in Identifiers, user_id \in UserIds,
          insert_raises \in BOOLEAN :
         LET exp == IF expires_at = None THEN DatetimeMax ELSE expires_at
             input == SigningInput(ident, exp)
         IN \E sig \in (IF input \in DOMAIN hmac THEN {hmac[input]} ELSE Signatures) :
              LET table == (input :> sig) @@ hmac
                  token_info == make_api_token(expires_at, ident, table)
                  taken == \/ insert_raises
                           \/ \E i \in RowIds : tokens[i].token = token_info.hashed_value
                  id == Len(tokens) + 1
              IN /\ hmac' = table
                 /\ issued' = Append(issued, [value |-> token_info.value,
                                               hashed_value |-> token_info.hashed_value,
                                               ident |-> ident,
                                               expires_at |-> expires_at])
                 /\ IF taken
                    THEN UNCHANGED <<tokens, cache>> /\ DropFrames
                    ELSE /\ tokens' = Append(tokens, [token |-> token_info.hashed_value,
                                                      user_id |-> user_id,
                                                      is_active |-> TRUE,
                                                      expires_at |-> expires_at,
                                                      updated_at |-> None])
                         /\ cache' = cache_set(cache, id, token_info.value, TokenDisplayTtl, now)
                         /\ DropFramesDirty
    /\ UNCHANGED <<now, users>>
    /\ UNCHANGED displayVars
    /\ UNCHANGED releaseVars
    /\ UNCHANGED uowVars
    /\ UNCHANGED memVars

\* ------------------------------------------ a direct call of the issuer
\* make_api_token with what random.randint and uuid4 happen to draw
make_api_token_call ==
    /\ Len(issued) < MaxCalls
    /\ \E expires_at \in ExpiryInputs, ident \in Identifiers :
         LET exp == IF expires_at = None THEN DatetimeMax ELSE expires_at
             input == SigningInput(ident, exp)
         IN \E sig \in (IF input \in DOMAIN hmac THEN {hmac[input]} ELSE Signatures) :
              LET table == (input :> sig) @@ hmac
                  token_info == make_api_token(expires_at, ident, table)
              IN /\ hmac' = table
                 /\ issued' = Append(issued, [value |-> token_info.value,
                                               hashed_value |-> token_info.hashed_value,
                                               ident |-> ident,
                                               expires_at |-> expires_at])
    /\ UNCHANGED <<now, tokens, users, cache, probe, req, vpc, vlocal, vresult, vtrace, admin>>
    /\ UNCHANGED displayVars
    /\ UNCHANGED releaseVars
    /\ UNCHANGED uowVars
    /\ UNCHANGED memVars

\* --------------------------------------------------------- request inputs
IssuedValues == {issued[i].value : i \in 1..Len(issued)}

\* strings that no issuer produced
Garbage ==
    { <<>>,
      <<" ", " ", " ">>,
      <<"1", "2", "3">>,
      <<"p", "a", "y", "-", "s", "i", "g", "a", "b", "c">>,
      <<"p", "a", "y", "s", "i", "g", "^", "^", "^">>,
      <<"p", "a", "y", "s", "i", "g", "0", "0", "1">> }

\* an issued value with another length suffix
Resuffixed == {SliceHead(v, 3) \o <<"0", "0", "0">> : v \in IssuedValues}

Credentials == IssuedValues \cup Resuffixed \cup Garbage

Absent == [present |-> FALSE, header |-> <<>>]
Header(value) == [present |-> TRUE, header |-> value]

Headers ==
    {Absent, Header(Marker)}
        \cup {Header(c) : c \in Credentials}
        \cup {Header(Marker \o <<" ">> \o c) : c \in Credentials}

Methods == {"GET", "OPTIONS"}

\* ----------------------------------------------- tokens made by others
\* the two segments of a compact token, as anyone can cut them
PayloadOf(v) == SliceHead(SliceHead(v, 3), SigLen)
SignatureOf(v) == SliceTail(SliceHead(v, 3), SigLen)

\* a signature made with another secret, and one made with the same secret
\* under another algorithm (HS512: twice the length); neither is a signature
\* the configured key and algorithm produce
ForeignSig == [k \in 1..SigLen |-> "x"]
OtherAlgSig == [k \in 1..(2 * SigLen) |-> "y"]

Compact(payload_part, signature_part) ==
    payload_part \o signature_part \o sign_len_prefix(signature_part)

\* an issued value with one character of a segment replaced
AlteredPayload(v) ==
    LET p == PayloadOf(v)
    IN {Compact([p EXCEPT ![k] = "9"], SignatureOf(v)) : k \in {2, Len(p)}}

AlteredSignature(v) ==
    LET s == SignatureOf(v)
    IN {Compact(PayloadOf(v), [s EXCEPT ![1] = "t"]),
        Compact(PayloadOf(v), [s EXCEPT ![Len(s)] = "B"])}

Forgeries ==
    UNION {{Compact(PayloadOf(v), ForeignSig), Compact(PayloadOf(v), OtherAlgSig)}
             \cup AlteredPayload(v) \cup AlteredSignature(v) : v \in IssuedValues}

\* ------------------------------------------- a direct call of the decoder
decode_call ==
    /\ \E input \in Credentials \cup Forgeries :
         probe' = [input |-> input, at |-> now, result |-> decode_api_token(input, hmac, now),
                   checking_token |-> IF IntParsable(SliceTail(input, 3))
                                      THEN checking_token(input, hmac) ELSE <<>>]
    /\ UNCHANGED <<now, hmac, issued, tokens, users, cache, req, vpc, vlocal, vresult, vtrace, admin>>
    /\ UNCHANGED displayVars
    /\ UNCHANGED releaseVars
    /\ UNCHANGED uowVars
    /\ UNCHANGED memVars

\* -------------------------------------------------------- verify_api_token
\* variant: the marker is left in the credential
extract_credential_keep_marker(present, header) ==
    Strip(IF present THEN header ELSE <<>>)

\* variant: the credential is not stripped of surrounding whitespace
extract_credential_unstripped(present, header) ==
    RemoveAll(IF present THEN header ELSE <<>>, Marker)

\* (auth_token or "").replace("Bearer", "").strip()
extract_credential(present, header) ==
    Strip(RemoveAll(IF present THEN header ELSE <<>>, Marker))

\* variant: the owner is not looked at
store_decision_skip_owner(token, auth_token) ==
    IF ~token.found THEN Http401("Not authenticated: unknown token")
    ELSE IF ~token.is_active THEN Http401("Not authenticated: inactive token")
    ELSE Returned(auth_token)

\* variant: the owner is looked at before the row's own flag
store_decision_owner_first(token, auth_token) ==
    IF ~token.found THEN Http401("Not authenticated: unknown token")
    ELSE IF ~token.user_active THEN Http401("Not authenticated: user is not active")
    ELSE IF ~token.is_active THEN Http401("Not authenticated: inactive token")
    ELSE Returned(auth_token)

\* the checks on the row found, lines 206-217
store_decision(token, auth_token) ==
    IF ~token.found THEN Http401("Not authenticated: unknown token")
    ELSE IF ~token.is_active THEN Http401("Not authenticated: inactive token")
    ELSE IF ~token.user_active THEN Http401("Not authenticated: user is not active")
    ELSE Returned(auth_token)

\* variant: no method skips verification
skips_verification_none(method) == FALSE

\* line 186: the method that skips verification
skips_verification(method) == method = "OPTIONS"

\* the credential is an issued value whose expiry, in whole seconds, is ahead
Unexpired(credential, instant) ==
    \E i \in 1..Len(issued) :
        /\ issued[i].value = credential
        /\ \/ issued[i].expires_at = None
           \/ SecToTicks(Timestamp(issued[i].expires_at)) > instant

\* lines 186-200: everything up to the store lookup; where it stops, with what
verify_sync(method, present, header, table, instant) ==
    IF skips_verification(method)
    THEN [pc |-> "done", result |-> Returned(<<>>), local |-> NoLocal, decodes |-> 0]
    ELSE LET auth_token == extract_credential(present, header)
             decoded_payload == decode_api_token(auth_token, table, instant)
             local == [NoLocal EXCEPT !.auth_token = auth_token]
         IN IF auth_token = <<>>
            THEN [pc |-> "done", result |-> Http401("Not authenticated"),
                  local |-> NoLocal, decodes |-> 0]
            ELSE IF decoded_payload.status = "http401"
            THEN [pc |-> "done", result |-> Http401(decoded_payload.detail),
                  local |-> local, decodes |-> 1]
            ELSE IF decoded_payload.status # "ok"
            THEN [pc |-> "done", result |-> Raised(decoded_payload.status),
                  local |-> local, decodes |-> 1]
            ELSE IF decoded_payload.sub = <<>>
            THEN [pc |-> "done", result |-> Http401("Not authenticated: token has no identity"),
                  local |-> local, decodes |-> 1]
            ELSE [pc |-> "lookup", result |-> NoResult,
                  local |-> [local EXCEPT !.hashed_token = hash_token(decoded_payload.sub)],
                  decodes |-> 1]

verify_begin ==
    /\ vpc = "idle"
    /\ \E method \in Methods, h \in Headers :
         LET step == verify_sync(method, h.present, h.header, hmac, now)
         IN /\ req' = [method |-> method, present |-> h.present, header |-> h.header]
            /\ vpc' = step.pc
            /\ vresult' = step.result
            /\ vlocal' = step.local
            /\ vtrace' = [NoTrace EXCEPT
                            !.decodes = step.decodes,
                            !.fresh = Unexpired(step.local.auth_token, now)]
    /\ admin' = NoAdmin
    /\ UNCHANGED <<now, hmac, issued, tokens, users, cache, probe>>
    /\ UNCHANGED displayVars
    /\ UNCHANGED releaseVars
    /\ UNCHANGED uowVars
    /\ UNCHANGED memVars

\* variant: the block marks the row it found as used up
verify_block_writes_deactivate(table, token, at) ==
    IF token.found THEN set_active(table, {token.id}, FALSE, at) ELSE table

\* lines 202-203: what the block under the unit of work leaves in the session
\* to be flushed and committed at exit: get_by_token only selects
verify_block_writes(table, token, at) == table

\* variant: an exit that returns True, swallowing the block's exception
uow_exit_swallow(exc, exit_fails) ==
    IF exit_fails THEN "CleanupError" ELSE ""

\* SASessionUOW.__aexit__ in standalone mode: flush, then commit (no exception
\* in the block) or rollback (exception), then close.  What leaves the block:
\* the block's exception, or the error of the step of the exit that failed
uow_exit(exc, exit_fails) ==
    IF exit_fails THEN "CleanupError" ELSE exc

\* what can go wrong with the store during one verification
StoreFaults == {"", "enter", "query", "exit", "query+exit"}

\* lines 202-217: the unit of work around the query, then the checks on the row
verify_lookup ==
    /\ vpc = "lookup"
    /\ \E fault \in StoreFaults :
         LET entered == fault # "enter"
             query_raises == fault \in {"query", "query+exit"}
             exit_fails == fault \in {"exit", "query+exit"}
             token == IF entered /\ ~query_raises
                      THEN get_by_token(tokens, users, vlocal.hashed_token)
                      ELSE NoRow
             propagated == IF ~entered THEN "DatabaseError"
                           ELSE uow_exit(IF query_raises THEN "DatabaseError" ELSE "", exit_fails)
         IN /\ vlocal' = [vlocal EXCEPT !.token = token]
            /\ vtrace' = [vtrace EXCEPT !.queries = IF entered THEN @ + 1 ELSE @,
                                        !.fault = fault]
            /\ vresult' = IF propagated # "" THEN Raised(propagated)
                          ELSE store_decision(token, vlocal.auth_token)
            /\ tokens' = IF propagated = ""
                          THEN verify_block_writes(tokens, token, now) ELSE tokens
    /\ vpc' = "done"
    /\ admin' = NoAdmin
    /\ UNCHANGED <<now, hmac, issued, users, cache, probe, req>>
    /\ UNCHANGED displayVars
    /\ UNCHANGED releaseVars
    /\ UNCHANGED uowVars
    /\ UNCHANGED memVars

\* -------------------------------------------- TokenAdminView._set_active
\* UPDATE inside the unit of work, then uow.commit(): the change becomes
\* visible, or the commit fails and is rolled back
admin_set_active ==
    /\ \E ids \in (SUBSET RowIds) \ {{}}, is_active \in BOOLEAN, committed \in BOOLEAN :
         /\ tokens' = IF committed THEN set_active(tokens, ids, is_active, now) ELSE tokens
         /\ admin' = IF committed THEN [ids |-> ids, is_active |-> is_active] ELSE NoAdmin
         /\ probe' = NoProbe
         /\ IF vpc = "done"
            THEN /\ req' = NoRequest
                 /\ vpc' = "idle"
                 /\ vlocal' = NoLocal
                 /\ vresult' = NoResult
                 /\ vtrace' = NoTrace
            ELSE /\ vtrace' = IF vpc = "lookup" /\ committed
                              THEN [vtrace EXCEPT !.dirty = TRUE] ELSE vtrace
                 /\ UNCHANGED <<req, vpc, vlocal, vresult>>
    /\ UNCHANGED <<now, hmac, issued, users, cache>>
    /\ UNCHANGED displayVars
    /\ UNCHANGED releaseVars
    /\ UNCHANGED uowVars
    /\ UNCHANGED memVars

\* UserAdminView.update_model: the form's is_active is written to the user row
user_update_model ==
    /\ \E pk \in UserIds, is_active \in BOOLEAN :
         /\ users[pk].is_active # is_active
         /\ users' = [users EXCEPT ![pk].is_active = is_active]
    /\ DropFramesDirty
    /\ UNCHANGED <<now, hmac, issued, tokens, cache>>
    /\ UNCHANGED displayVars
    /\ UNCHANGED releaseVars
    /\ UNCHANGED uowVars
    /\ UNCHANGED memVars

\* ----------------------------- TokenAdminView.get_object_for_details
\* super().get_object_for_details: the row is fetched; the call is suspended
\* on the store and other calls run meanwhile
details_begin ==
    /\ \E v \in Viewers, id \in RowIds :
         /\ details[v].pc = "idle"
         /\ details' = [details EXCEPT ![v] = [pc |-> "fetched", id |-> id]]
    /\ UNCHANGED <<now, hmac, issued, tokens, users, cache, probe, req, vpc, vlocal, vresult,
                   vtrace, admin, viewed, shown, naps>>
    /\ UNCHANGED releaseVars
    /\ UNCHANGED uowVars
    /\ UNCHANGED memVars

\* lines 66-71: cache.get, raw_token, cache.invalidate.  The in-memory cache
\* never suspends, so nothing runs between the get and the invalidate
details_finish ==
    /\ \E v \in Viewers :
         /\ details[v].pc = "fetched"
         /\ LET id == details[v].id
                cached_value == cache_get(cache, id, now)
                raw_token == IF cached_value.hit /\ cached_value.value # <<>>
                             THEN cached_value.value ELSE <<>>
                age == IF cached_value.hit
                       THEN now - (CHOOSE e \in cache : e.key = id).last_update ELSE 0
            IN /\ cache' = cache_invalidate(cached_value.entries, id)
               /\ viewed' = [id |-> id, raw_token |-> raw_token, age |-> age]
               /\ shown' = IF raw_token # <<>> THEN Append(shown, id) ELSE shown
               /\ details' = [details EXCEPT ![v] = NoDetails]
    /\ UNCHANGED <<now, hmac, issued, tokens, users, probe, req, vpc, vlocal, vresult,
                   vtrace, admin, naps>>
    /\ UNCHANGED releaseVars
    /\ UNCHANGED uowVars
    /\ UNCHANGED memVars

\* the clock runs for a while: a second, the ttl asked for, the cache's ttl
Delays == {1, TokenDisplayTtl, DEFAULT_CACHE_TTL}

Elapse ==
    /\ naps < MaxNaps
    /\ \E d \in Delays : now' = now + d * TicksPerSec
    /\ naps' = naps + 1
    /\ UNCHANGED <<hmac, issued, tokens, users, cache, probe, req, vpc, vlocal, vresult,
                   vtrace, admin, details, viewed, shown>>
    /\ UNCHANGED releaseVars
    /\ UNCHANGED uowVars
    /\ UNCHANGED memVars

\* ---------------------------------------------------------------- releases
\* InMemoryCache.invalidate(pattern=prefix + "*"): every key with the prefix
cache_invalidate_pattern(entries, prefix) == {e \in entries : e.key.prefix # prefix}

\* invalidate_release_cache: every page of the active releases is dropped
invalidate_release_cache(entries) == cache_invalidate_pattern(entries, PagePrefix)

\* invalidate_release_cache() called without await: the coroutine object is
\* made and dropped, its body never runs
invalidate_release_cache_unawaited(entries) == entries

\* ReleaseRepository.get_active_releases: the count of the active releases and
\* the window [offset, offset + limit) of them, latest first (the model's
\* releases are published in the order of their ids)
get_active_releases_rows(table, offset, limit) ==
    LET active == {r \in ReleaseIds : table[r].exists /\ table[r].is_active}
        rank(r) == Cardinality({q \in active : q >= r})
    IN [items |-> {[id |-> r, rev |-> table[r].rev] :
                     r \in {q \in active : rank(q) > offset /\ rank(q) <= offset + limit}},
        total |-> Cardinality(active)]

\* ReleaseRepository.set_active -> update_by_ids
release_set_active(table, release_ids, is_active) ==
    [r \in ReleaseIds |->
        IF r \in release_ids /\ table[r].exists
        THEN [table[r] EXCEPT !.is_active = is_active] ELSE table[r]]

\* get_active_releases, lines 52-80: cache.get; a hit is the response; on a
\* miss the two SELECTs run in the database and the coroutine waits for rows
get_active_releases_begin ==
    /\ reader.pc = "idle"
    /\ \E offset \in Offsets :
         LET cache_key == PageKey(offset, DefaultLimit)
             cached_data == cache_get(pages, cache_key, now)
         IN /\ pages' = cached_data.entries
            /\ reader' = IF cached_data.hit
                          THEN [pc |-> "idle", key |-> cache_key,
                                page |-> cached_data.value, from_cache |-> TRUE]
                          ELSE [pc |-> "fetched", key |-> cache_key,
                                page |-> get_active_releases_rows(releases, offset, DefaultLimit),
                                from_cache |-> FALSE]
    /\ UNCHANGED <<now, hmac, issued, tokens, users, cache, probe, req, vpc, vlocal, vresult,
                   vtrace, admin, releases, panel>>
    /\ UNCHANGED displayVars
    /\ UNCHANGED uowVars
    /\ UNCHANGED memVars

\* lines 81-94: the coroutine is resumed with the rows and caches the page
get_active_releases_finish ==
    /\ reader.pc = "fetched"
    /\ pages' = cache_set(pages, reader.key, reader.page, None, now)
    /\ reader' = [reader EXCEPT !.pc = "idle"]
    /\ UNCHANGED <<now, hmac, issued, tokens, users, cache, probe, req, vpc, vlocal, vresult,
                   vtrace, admin, releases, panel>>
    /\ UNCHANGED displayVars
    /\ UNCHANGED uowVars
    /\ UNCHANGED memVars

\* ReleaseAdminView._set_active, lines 160-163: the UPDATE and uow.commit()
panel_set_active_commit ==
    /\ panel.pc = "idle"
    /\ \E release_ids \in (SUBSET {r \in ReleaseIds : releases[r].exists}) \ {{}},
          is_active \in BOOLEAN :
         releases' = release_set_active(releases, release_ids, is_active)
    /\ panel' = [pc |-> "committed"]
    /\ UNCHANGED <<now, hmac, issued, tokens, users, cache, probe, req, vpc, vlocal, vresult,
                   vtrace, admin, pages, reader>>
    /\ UNCHANGED displayVars
    /\ UNCHANGED uowVars
    /\ UNCHANGED memVars

\* line 165: await invalidate_release_cache()
panel_set_active_invalidate ==
    /\ panel.pc = "committed"
    /\ pages' = invalidate_release_cache(pages)
    /\ panel' = NoPanel
    /\ UNCHANGED <<now, hmac, issued, tokens, users, cache, probe, req, vpc, vlocal, vresult,
                   vtrace, admin, releases, reader>>
    /\ UNCHANGED displayVars
    /\ UNCHANGED uowVars
    /\ UNCHANGED memVars

\* ------------------------------------ the authenticated API for releases
\* Each handler changes the rows inside "async with uow" (session injected,
\* marked for commit, committed at exit), then calls invalidate_release_cache()
\* without await, then returns its response.
ExistingReleases == {r \in ReleaseIds : releases[r].exists}

ApiFrame ==
    /\ pages' = invalidate_release_cache_unawaited(pages)
    /\ UNCHANGED <<now, hmac, issued, tokens, users, cache, probe, req, vpc, vlocal, vresult,
                   vtrace, admin, reader, panel>>
    /\ UNCHANGED displayVars
    /\ UNCHANGED uowVars
    /\ UNCHANGED memVars

\* lines 53-72; ReleaseCreate has no field is_active, so it is set to False
create_release ==
    /\ \E r \in ReleaseIds \ ExistingReleases :
         releases' = [releases EXCEPT ![r] = [exists |-> TRUE, is_active |-> FALSE, rev |-> 0]]
    /\ ApiFrame

\* lines 75-91; the fields sent (notes, url, published_at) are set on the row:
\* rev counts the edits of what the public page shows of a release
update_release ==
    /\ \E release_id \in ExistingReleases :
         /\ releases[release_id].rev < MaxRevs
         /\ releases' = [releases EXCEPT ![release_id].rev = @ + 1]
    /\ ApiFrame

\* lines 94-109
activate_release ==
    /\ \E release_id \in ExistingReleases :
         releases' = release_set_active(releases, {release_id}, TRUE)
    /\ ApiFrame

\* lines 112-127
deactivate_release ==
    /\ \E release_id \in ExistingReleases :
         releases' = release_set_active(releases, {release_id}, FALSE)
    /\ ApiFrame

\* lines 130-146
delete_release ==
    /\ \E release_id \in ExistingReleases :
         releases' = [releases EXCEPT ![release_id] =
                          [exists |-> FALSE, is_active |-> FALSE, rev |-> 0]]
    /\ ApiFrame

\* ------------------------------------------------------------ SASessionUOW
\* The calls made on the session are kept in order.  A kind of call that
\* fails (faults) fails every time it is made.
Faults == [flush : BOOLEAN, commit : BOOLEAN, rollback : BOOLEAN, close : BOOLEAN]

Outcome(calls, raised) == [calls |-> calls, raised |-> raised]

\* SASessionUOW.rollback: session.rollback(); its error is raised
uow_rollback(f) ==
    Outcome(<<"rollback">>, IF f.rollback THEN "RollbackError" ELSE "")

\* variant: a failed commit is re-raised with no rollback
uow_commit_no_rollback(f) ==
    Outcome(<<"commit">>, IF f.commit THEN "CommitError" ELSE "")

\* SASessionUOW.commit: session.commit(); when it raises, self.rollback() and
\* then the commit's error again, unless the rollback raised first
uow_commit(f) ==
    IF ~f.commit THEN Outcome(<<"commit">>, "")
    ELSE LET undone == uow_rollback(f)
         IN Outcome(<<"commit">> \o undone.calls,
                    IF undone.raised # "" THEN undone.raised ELSE "CommitError")

\* variant: without the mark nothing is committed, whoever owns the session
exit_transaction_marked_only(owns_session, need_to_commit, exc, f) ==
    IF need_to_commit /\ exc = "" THEN uow_commit(f)
    ELSE IF exc # "" THEN uow_rollback(f)
    ELSE Outcome(<<>>, "")

\* variant: a clean exit commits, whoever owns the session
exit_transaction_always_commit(owns_session, need_to_commit, exc, f) ==
    IF exc # "" THEN uow_rollback(f) ELSE uow_commit(f)

\* lines 86-108: commit or rollback, by ownership, mark and the block's exception
exit_transaction(owns_session, need_to_commit, exc, f) ==
    IF owns_session
    THEN IF need_to_commit /\ exc = "" THEN uow_commit(f)
         ELSE IF exc # "" THEN uow_rollback(f)
         ELSE uow_commit(f)
    ELSE IF need_to_commit /\ exc = "" THEN uow_commit(f)
         ELSE IF exc # "" THEN uow_rollback(f)
         ELSE Outcome(<<>>, "")

\* lines 81-110, the try: flush, the transaction's end, close of an own session
exit_try(owns_session, need_to_commit, exc, f) ==
    LET tx == exit_transaction(owns_session, need_to_commit, exc, f)
    IN IF f.flush THEN Outcome(<<"flush">>, "FlushError")
       ELSE IF tx.raised # "" THEN Outcome(<<"flush">> \o tx.calls, tx.raised)
       ELSE IF owns_session
       THEN Outcome(<<"flush">> \o tx.calls \o <<"close">>,
                    IF f.close THEN "CloseError" ELSE "")
       ELSE Outcome(<<"flush">> \o tx.calls, "")

\* SASessionUOW.__aexit__: the try, and lines 112-117: on an error an own
\* session is closed and the error goes on, or the close's error if it raised
aexit(owns_session, need_to_commit, exc, f) ==
    LET tried == exit_try(owns_session, need_to_commit, exc, f)
    IN IF tried.raised = "" \/ ~owns_session THEN tried
       ELSE Outcome(tried.calls \o <<"close">>,
                    IF f.close THEN "CloseError" ELSE tried.raised)

\* SASessionUOW(session) and __aenter__: begin() for an own session, and for
\* an injected one that has no transaction yet
uow_enter ==
    /\ uow.pc \in {"none", "exited"}
    /\ \E owns_session \in BOOLEAN, in_transaction \in BOOLEAN :
         /\ owns_session => ~in_transaction
         /\ uow' = [NoUow EXCEPT
                      !.pc = "entered",
                      !.owns_session = owns_session,
                      !.calls = IF owns_session \/ ~in_transaction
                                THEN <<"begin">> ELSE <<>>]
    /\ UNCHANGED <<now, hmac, issued, tokens, users, cache, probe, req, vpc, vlocal, vresult,
                   vtrace, admin, mgmt>>
    /\ UNCHANGED displayVars
    /\ UNCHANGED releaseVars
    /\ UNCHANGED memVars

\* mark_for_commit
uow_mark_for_commit ==
    /\ uow.pc = "entered"
    /\ ~uow.need_to_commit
    /\ uow' = [uow EXCEPT !.need_to_commit = TRUE, !.marked = TRUE]
    /\ UNCHANGED <<now, hmac, issued, tokens, users, cache, probe, req, vpc, vlocal, vresult,
                   vtrace, admin, mgmt>>
    /\ UNCHANGED displayVars
    /\ UNCHANGED releaseVars
    /\ UNCHANGED memVars

\* the block ends, with an exception or without, and __aexit__ runs
uow_aexit ==
    /\ uow.pc = "entered"
    /\ \E exc \in {"", "BlockError"}, f \in Faults :
         LET left == aexit(uow.owns_session, uow.need_to_commit, exc, f)
         IN uow' = [uow EXCEPT
                      !.pc = "exited",
                      !.exc = exc,
                      !.faults = f,
                      !.calls = @ \o left.calls,
                      !.raised = left.raised,
                      !.need_to_commit =
                          IF \E k \in 1..Len(left.calls) :
                                \/ left.calls[k] = "commit" /\ ~f.commit
                                \/ left.calls[k] = "rollback" /\ ~f.rollback
                          THEN FALSE ELSE @]
    /\ UNCHANGED <<now, hmac, issued, tokens, users, cache, probe, req, vpc, vlocal, vresult,
                   vtrace, admin, mgmt>>
    /\ UNCHANGED displayVars
    /\ UNCHANGED releaseVars
    /\ UNCHANGED memVars

\* ------------------------------------------- the management command
\* db_connection: "async with SASessionUOW()" inside try/except Exception;
\* whatever the block or the exit of the unit of work raises is reported on
\* the terminal and goes no further
db_connection(raised) == ""

\* update_user, lines 39-53: success is set in the block, when the user was
\* found; the unit of work is left after that, and success is returned
update_user(found, lookup_raises, f) ==
    LET success == ~lookup_raises /\ found
        left == aexit(TRUE, success, IF lookup_raises THEN "DatabaseError" ELSE "", f)
        propagated == db_connection(IF left.raised # "" THEN left.raised
                                    ELSE IF lookup_raises THEN "DatabaseError" ELSE "")
    IN [returned |-> success,
        raised |-> propagated,
        committed |-> /\ success
                      /\ ~f.commit
                      /\ \E k \in 1..Len(left.calls) : left.calls[k] = "commit"]

update_user_call ==
    /\ \E found \in BOOLEAN, lookup_raises \in BOOLEAN, f \in Faults :
         LET done == update_user(found, lookup_raises, f)
         IN mgmt' = [called |-> TRUE, found |-> found, faults |-> f,
                     lookup_raises |-> lookup_raises,
                     returned |-> done.returned, committed |-> done.committed]
    /\ UNCHANGED <<now, hmac, issued, tokens, users, cache, probe, req, vpc, vlocal, vresult,
                   vtrace, admin, uow>>
    /\ UNCHANGED displayVars
    /\ UNCHANGED releaseVars
    /\ UNCHANGED memVars

\* ------------------------------- InMemoryCache, dictionary by dictionary
\* a dictionary without some of its keys
Without(dict, keys) == [k \in DOMAIN dict \ keys |-> dict[k]]

\* str.startswith and str.removesuffix("*")
StartsWith(s, prefix) == Len(s) >= Len(prefix) /\ SubSeq(s, 1, Len(prefix)) = prefix
RemoveStar(pattern) ==
    IF Len(pattern) > 0 /\ pattern[Len(pattern)] = "*"
    THEN SubSeq(pattern, 1, Len(pattern) - 1) ELSE pattern

\* lines 72-88
memory_get(m, key, at) ==
    IF key \notin DOMAIN m.data THEN [value |-> NoValue, mem |-> m]
    ELSE IF at - m.last_update[key] > DEFAULT_CACHE_TTL * TicksPerSec
    THEN [value |-> NoValue,
          mem |-> [data |-> Without(m.data, {key}),
                   last_update |-> Without(m.last_update, {key})]]
    ELSE [value |-> m.data[key], mem |-> m]

\* lines 90-100; ttl is not used
memory_set(m, key, value, ttl, at) ==
    [data |-> (key :> value) @@ m.data, last_update |-> (key :> at) @@ m.last_update]

\* variant: the timestamps of the keys removed are left behind
memory_invalidate_data_only(m, key, pattern) ==
    IF pattern = <<"*">> THEN [data |-> <<>>, last_update |-> m.last_update]
    ELSE IF pattern # <<>>
    THEN [data |-> Without(m.data, {k \in DOMAIN m.data : StartsWith(k, RemoveStar(pattern))}),
          last_update |-> m.last_update]
    ELSE [data |-> Without(m.data, {key}), last_update |-> m.last_update]

\* lines 102-141; with neither key nor pattern ValueError is raised
memory_invalidate(m, key, pattern) ==
    IF pattern = <<"*">> THEN [data |-> <<>>, last_update |-> <<>>]
    ELSE IF pattern # <<>>
    THEN LET prefix == RemoveStar(pattern)
             keys_to_remove == {k \in DOMAIN m.data : StartsWith(k, prefix)}
         IN [data |-> Without(m.data, keys_to_remove),
             last_update |-> Without(m.last_update, keys_to_remove)]
    ELSE IF key # <<>>
    THEN IF key \in DOMAIN m.data
         THEN [data |-> Without(m.data, {key}), last_update |-> Without(m.last_update, {key})]
         ELSE m
    ELSE m

MemFrame ==
    /\ UNCHANGED <<now, hmac, issued, tokens, users, cache, probe, req, vpc, vlocal, vresult,
                   vtrace, admin>>
    /\ UNCHANGED displayVars
    /\ UNCHANGED releaseVars
    /\ UNCHANGED uowVars

memory_set_call ==
    /\ \E key \in MemKeys, value \in MemValues, ttl \in {None, TokenDisplayTtl} :
         /\ mem' = memory_set(mem, key, value, ttl, now)
         /\ memcall' = [op |-> "set", key |-> key, at |-> now, value |-> value]
         /\ lastset' = [lastset EXCEPT ![key] = [value |-> value, at |-> now, live |-> TRUE]]
    /\ MemFrame

memory_get_call ==
    /\ \E key \in MemKeys :
         LET got == memory_get(mem, key, now)
         IN /\ mem' = got.mem
            /\ memcall' = [op |-> "get", key |-> key, at |-> now, value |-> got.value]
    /\ UNCHANGED lastset
    /\ MemFrame

\* the clock runs for a second or for the cache's ttl; the last call is over
memory_wait ==
    /\ naps < MaxNaps
    /\ \E d \in {1, DEFAULT_CACHE_TTL} : now' = now + d * TicksPerSec
    /\ naps' = naps + 1
    /\ memcall' = NoCall
    /\ UNCHANGED <<hmac, issued, tokens, users, cache, probe, req, vpc, vlocal, vresult,
                   vtrace, admin, details, viewed, shown, mem, lastset>>
    /\ UNCHANGED releaseVars
    /\ UNCHANGED uowVars

\* the calls of invalidate: all, by prefix, by key, with nothing
Invalidations ==
    {[key |-> <<>>, pattern |-> <<"*">>],
     [key |-> <<>>, pattern |-> <<"a", "*">>],
     [key |-> <<>>, pattern |-> <<"t">>],
     [key |-> <<>>, pattern |-> <<>>]}
        \cup {[key |-> k, pattern |-> <<>>] : k \in MemKeys}

\* the keys a call of invalidate is for
Covered(inv) ==
    {k \in MemKeys :
        \/ inv.pattern = <<"*">>
        \/ inv.pattern # <<>> /\ StartsWith(k, RemoveStar(inv.pattern))
        \/ inv.pattern = <<>> /\ inv.key = k}

memory_invalidate_call ==
    /\ \E inv \in Invalidations :
         /\ mem' = memory_invalidate(mem, inv.key, inv.pattern)
         /\ memcall' = [op |-> "invalidate", key |-> inv.key, at |-> now, value |-> NoValue]
         /\ lastset' = [k \in MemKeys |->
                          IF k \in Covered(inv) THEN [lastset[k] EXCEPT !.live = FALSE]
                          ELSE lastset[k]]
    /\ MemFrame

\* ------------------------------------------------------------ specifications
\* the verification pipeline against the store
Next ==
    \/ Tick
    \/ insert_model
    \/ verify_begin
    \/ verify_lookup
    \/ admin_set_active
    \/ user_update_model

Spec == Init /\ [][Next]_vars

\* the codec alone
NextCodec ==
    \/ Tick
    \/ insert_model
    \/ decode_call

SpecCodec == Init /\ [][NextCodec]_vars

\* ------------------------------------------------------------------ claims
Done == vpc = "done"

Checked == Done /\ req.method # "OPTIONS"

\* the issuances whose value is the given string
IssuedAs(value) == {i \in 1..Len(issued) : issued[i].value = value}

\* the rows stored under the hash of an issuance's identifier
RowsOf(i) == {r \in RowIds : tokens[r].token = hash_token(issued[i].ident)}

\* the expiry of an issuance, in whole seconds, is ahead of the instant
ExpiryAhead(i, instant) ==
    \/ issued[i].expires_at = None
    \/ SecToTicks(Timestamp(issued[i].expires_at)) > instant

\* the request carries the value of issuance i, with or without the marker
Carries(i) ==
    /\ req.present
    /\ req.header \in {issued[i].value, Marker \o <<" ">> \o issued[i].value}

\* the store failed under the verification: what was raised is its error
StoreFailed == vresult.kind = "error" /\ vresult.detail \in {"DatabaseError", "CleanupError"}

MissingCredential == {"Not authenticated", "Not authenticated: token has no identity"}
MalformedToken == {"Invalid token signature", "Invalid token"}
ExpiredToken == {"Token expired"}
UnknownToken == {"Not authenticated: unknown token"}
RevokedToken == {"Not authenticated: inactive token", "Not authenticated: user is not active"}

\* C1: a checked (non-OPTIONS) request gets an identity only if both gates
\* pass: the identity is a value the issuer signed, its expiry was ahead when
\* it was decoded, its subject is non-empty, and the store holds an active row
\* with an active owner under the hash of that subject.
C1_BothGates ==
    (Checked /\ vresult.kind = "ok") =>
        /\ vresult.identity # <<>>
        /\ vtrace.fresh
        /\ \E i \in IssuedAs(vresult.identity) :
             /\ issued[i].ident # <<>>
             /\ \E r \in RowsOf(i) :
                  tokens[r].is_active /\ users[tokens[r].user_id].is_active

C1_Witness == Checked /\ vresult.kind = "ok" /\ vresult.identity # <<>>

\* C2: a request "Bearer V", V issued and unexpired, the store holding an
\* active row with an active owner for V and answering, returns exactly V.
C2_IssuedVerifies ==
    \A i \in 1..Len(issued) :
        ( /\ Checked
          /\ req.present
          /\ req.header = Marker \o <<" ">> \o issued[i].value
          /\ ExpiryAhead(i, now)
          /\ ~StoreFailed
          /\ \E r \in RowsOf(i) : tokens[r].is_active /\ users[tokens[r].user_id].is_active )
        => vresult = Returned(issued[i].value)

\* ---- the codec, called directly
\* the decoder has just been called on the value of issuance i
Probed(i) == probe.result.status # "none" /\ probe.input = issued[i].value

\* the expiry of issuance i as the token carries it: whole seconds
WholeSeconds(i) == SecToTicks(Timestamp(issued[i].expires_at))

C6_ExpiryGate ==
    \A i \in 1..Len(issued) :
        (Probed(i) /\ issued[i].expires_at # None) =>
            /\ probe.at < issued[i].expires_at => probe.result.status = "ok"
            /\ probe.at > issued[i].expires_at
                  => probe.result = DecodeFail("http401", "Token expired")

\* C6: an issued value with expiry E decodes at every instant before E
\* truncated to whole seconds and fails with "Token expired" at every instant
\* from then on (so always, when E was in the past at issuance).
C6_ExpiryGateWholeSeconds ==
    \A i \in 1..Len(issued) :
        (Probed(i) /\ issued[i].expires_at # None) =>
            /\ probe.at < WholeSeconds(i) => probe.result.status = "ok"
            /\ probe.at >= WholeSeconds(i)
                  => probe.result = DecodeFail("http401", "Token expired")

\* a value issued with its expiry ahead, decoded after that expiry
C6_Witness ==
    \E i \in 1..Len(issued) :
        /\ Probed(i)
        /\ issued[i].expires_at # None
        /\ \E e \in cache : e.value = issued[i].value /\ e.last_update < issued[i].expires_at
        /\ probe.at > issued[i].expires_at
        /\ probe.result = DecodeFail("http401", "Token expired")

\* C7 as stated: on every input that is not an issued value the decoder fails
\* with a 401 of the malformed kind and raises nothing else.
C7_MalformedIs401 ==
    (probe.result.status # "none" /\ probe.input \notin IssuedValues) =>
        /\ probe.result.status = "http401"
        /\ probe.result.detail \in MalformedToken

\* ---- the verification against the store
\* the unit of work around the lookup went through: the store answered
LookupAnswered == vtrace.queries = 1 /\ vtrace.fault = ""

Owner(r) == users[tokens[r].user_id]

\* C4: when the credential decoded with a non-empty subject and the store
\* answered, the row under hash_token(subject) decides: none, unknown token;
\* inactive, inactive token whatever the owner; active with an inactive
\* owner, user is not active; active with an active owner, the credential.
C4_StoreDecides ==
    (Checked /\ LookupAnswered) =>
        \E i \in IssuedAs(vlocal.auth_token) :
            /\ issued[i].ident # <<>>
            /\ vlocal.hashed_token = hash_token(issued[i].ident)
            /\ RowsOf(i) = {} => vresult = Http401("Not authenticated: unknown token")
            /\ \A r \in RowsOf(i) :
                 /\ ~tokens[r].is_active
                       => vresult = Http401("Not authenticated: inactive token")
                 /\ (tokens[r].is_active /\ ~Owner(r).is_active)
                       => vresult = Http401("Not authenticated: user is not active")
                 /\ (tokens[r].is_active /\ Owner(r).is_active)
                       => vresult = Returned(vlocal.auth_token)

\* an inactive row of an inactive owner: reported as the row's, not the owner's
C4_Witness ==
    /\ Checked
    /\ LookupAnswered
    /\ \E i \in IssuedAs(vlocal.auth_token) : \E r \in RowsOf(i) :
         ~tokens[r].is_active /\ ~Owner(r).is_active
    /\ vresult = Http401("Not authenticated: inactive token")

\* the last committed set_active on row r set it so
Deactivated(r) == ~tokens[r].is_active /\ tokens[r].updated_at # None
Reactivated(r) == tokens[r].is_active /\ tokens[r].updated_at # None

\* the step is a committed call of TokenAdminView._set_active
SetActiveCommitted == admin'.ids # {}

\* C5 as stated, at the end of a verification that started after the commit
C5_VerdictAsStated ==
    \A i \in 1..Len(issued) :
        (Checked /\ Carries(i) /\ ~vtrace.dirty) =>
            /\ (RowsOf(i) # {} /\ \A r \in RowsOf(i) : Deactivated(r))
                  => (vresult.kind = "http401" /\ vresult.detail \in RevokedToken)
            /\ ((\E r \in RowsOf(i) : Reactivated(r)) /\ ExpiryAhead(i, now))
                  => vresult = Returned(issued[i].value)
            /\ vresult.kind = "ok" => vtrace.fresh

\* C5 as stated, at a committed set_active: only is_active of the listed rows
C5_StepAsStated ==
    SetActiveCommitted =>
        /\ Len(tokens') = Len(tokens)
        /\ \A r \in RowIds :
             tokens'[r] = IF r \in admin'.ids
                          THEN [tokens[r] EXCEPT !.is_active = admin'.is_active]
                          ELSE tokens[r]

\* C5 as stated: after a committed set_active(ids, False) every verification
\* of the token fails with RevokedToken; after a committed set_active(ids,
\* True) an unexpired token verifies again; set_active changes only is_active
\* of the listed rows and never makes an expired token verify.
C5_RevocationAsStated == [][C5_VerdictAsStated' /\ C5_StepAsStated]_vars

C5_Verdict ==
    \A i \in 1..Len(issued) :
        /\ (Checked /\ Carries(i) /\ ~vtrace.dirty
              /\ RowsOf(i) # {} /\ \A r \in RowsOf(i) : Deactivated(r))
              => /\ vresult.kind # "ok"
                 /\ LookupAnswered => vresult = Http401("Not authenticated: inactive token")
        /\ (Checked /\ vlocal.auth_token = issued[i].value /\ ~vtrace.dirty
              /\ ExpiryAhead(i, now) /\ ~StoreFailed
              /\ \E r \in RowsOf(i) : Reactivated(r) /\ Owner(r).is_active)
              => vresult = Returned(issued[i].value)
        /\ (Checked /\ Carries(i) /\ vresult.kind = "ok") => vtrace.fresh

C5_Step ==
    SetActiveCommitted =>
        /\ Len(tokens') = Len(tokens)
        /\ users' = users
        /\ \A r \in RowIds :
             tokens'[r] = IF r \in admin'.ids
                          THEN [tokens[r] EXCEPT !.is_active = admin'.is_active,
                                                 !.updated_at = now]
                          ELSE tokens[r]

\* C5: after a committed set_active(ids, False) no verification of the token
\* that starts afterwards succeeds, and one whose lookup the store answers
\* fails with "inactive token"; after a committed set_active(ids, True) a
\* verification whose extracted credential is the unexpired token, its owner
\* active and the store answering, returns it; set_active changes is_active
\* and updated_at of the listed rows and nothing else, and no token verifies
\* whose expiry had passed when it was decoded.
C5_Revocation == [][C5_Verdict' /\ C5_Step]_vars

\* a token deactivated by a committed set_active, then refused as inactive
C5_Witness ==
    /\ Checked
    /\ ~vtrace.dirty
    /\ \E i \in 1..Len(issued) :
         /\ Carries(i)
         /\ ExpiryAhead(i, now)
         /\ RowsOf(i) # {}
         /\ \A r \in RowsOf(i) : Deactivated(r)
    /\ vresult = Http401("Not authenticated: inactive token")

\* C8: the store is asked only for a credential that was extracted non-empty,
\* decoded once with a valid signature and an expiry ahead, and carries a
\* non-empty subject; a verification that fails as missing, malformed or
\* expired has not asked the store.
C8_StoreAfterDecode ==
    /\ (vpc = "lookup" \/ vtrace.queries > 0) =>
          /\ vlocal.auth_token # <<>>
          /\ vtrace.decodes = 1
          /\ vtrace.fresh
          /\ \E i \in IssuedAs(vlocal.auth_token) :
               /\ issued[i].ident # <<>>
               /\ vlocal.hashed_token = hash_token(issued[i].ident)
    /\ (Checked /\ vresult.kind = "http401"
          /\ vresult.detail \in MissingCredential \cup MalformedToken \cup ExpiredToken)
          => vtrace.queries = 0

\* an issued token, expired: refused without a query
C8_Witness ==
    /\ Checked
    /\ \E i \in 1..Len(issued) : Carries(i) /\ ~ExpiryAhead(i, now)
    /\ vresult = Http401("Token expired")
    /\ vtrace.decodes = 1
    /\ vtrace.queries = 0

\* the lookup itself raised
LookupRaised == vtrace.fault \in {"query", "query+exit"}

\* C9 as stated: the error of a failed lookup propagates as it was raised,
\* no identity is returned, the lookup is made once.
C9_LookupErrorAsRaised ==
    (Checked /\ LookupRaised) =>
        /\ vresult = Raised("DatabaseError")
        /\ vtrace.queries = 1

\* C9: a failed lookup ends the verification with an error, the lookup's or
\* that of the cleanup of its unit of work, never with a 401 or an identity,
\* and the lookup is made once.
C9_LookupErrorPropagates ==
    (Checked /\ LookupRaised) =>
        /\ vresult.kind = "error"
        /\ vresult.detail \in {"DatabaseError", "CleanupError"}
        /\ vresult.identity = <<>>
        /\ vtrace.queries = 1

C9_Witness ==
    /\ Checked
    /\ vtrace.fault = "query"
    /\ vresult = Raised("DatabaseError")
    /\ vtrace.queries = 1

\* C10: a request of method OPTIONS returns the empty identity at once,
\* whatever its header: nothing is decoded, the store is not asked.
C10_PreflightBypass ==
    req.method = "OPTIONS" =>
        /\ vpc # "lookup"
        /\ Done => /\ vresult = Returned(<<>>)
                   /\ vtrace.decodes = 0
                   /\ vtrace.queries = 0

\* OPTIONS with the header of a revoked token
C10_Witness ==
    /\ Done
    /\ req.method = "OPTIONS"
    /\ \E i \in 1..Len(issued) :
         /\ Carries(i)
         /\ \E r \in RowsOf(i) : ~tokens[r].is_active
    /\ vresult = Returned(<<>>)

\* ---- the credential's extraction
AllSpaces(s) == \A k \in 1..Len(s) : s[k] \in {" "}

\* nothing but whitespace, or the marker once with whitespace around it
BlankOrMarkerOnly(h) ==
    \/ AllSpaces(h)
    \/ \E k \in 1..(Len(h) - Len(Marker) + 1) :
         /\ SubSeq(h, k, k + Len(Marker) - 1) = Marker
         /\ AllSpaces(SubSeq(h, 1, k - 1))
         /\ AllSpaces(SubSeq(h, k + Len(Marker), Len(h)))

\* C11: a non-OPTIONS request whose Authorization value is absent, empty,
\* whitespace, or the marker alone with whitespace around it, fails with 401
\* "Not authenticated" and nothing has been decoded.
C11_MissingCredential ==
    (Checked /\ (~req.present \/ BlankOrMarkerOnly(req.header))) =>
        /\ vresult = Http401("Not authenticated")
        /\ vtrace.decodes = 0
        /\ vtrace.queries = 0

\* the marker followed by whitespace only
C11_Witness ==
    /\ Checked
    /\ req.present
    /\ Len(req.header) > Len(Marker)
    /\ SubSeq(req.header, 1, Len(Marker)) = Marker
    /\ AllSpaces(SubSeq(req.header, Len(Marker) + 1, Len(req.header)))
    /\ vresult = Http401("Not authenticated")

\* ---- the storage key and the lookup key
\* C12: the key verification computes from the decoded subject of an issued
\* value is the hashed_value make_api_token returned with it, so the row the
\* lookup finds (or misses) is the row stored under hashed_value.
C12_SameLookupKey ==
    \A i \in 1..Len(issued) :
        ((vpc = "lookup" \/ vtrace.queries > 0) /\ vlocal.auth_token = issued[i].value) =>
            /\ vlocal.hashed_token = issued[i].hashed_value
            /\ (Done /\ LookupAnswered) =>
                  IF vlocal.token.found
                  THEN tokens[vlocal.token.id].token = issued[i].hashed_value
                  ELSE \A r \in RowIds : tokens[r].token # issued[i].hashed_value

C12_Witness ==
    /\ Done
    /\ LookupAnswered
    /\ vlocal.token.found
    /\ \E i \in 1..Len(issued) :
         /\ vlocal.auth_token = issued[i].value
         /\ tokens[vlocal.token.id].token = issued[i].hashed_value

\* ---- tokens the key holder did not sign
\* forged from the issued values, and not itself an issued value
Forged == Forgeries \ IssuedValues

\* the input is an issued value but for the text of its signature segment,
\* which decodes to the same bytes
SameSignatureBytes(x) ==
    \E v \in IssuedValues :
        /\ SliceTail(x, 3) = SliceTail(v, 3)
        /\ PayloadOf(x) = PayloadOf(v)
        /\ base64url_decode(SignatureOf(x)) = base64url_decode(SignatureOf(v))

\* C13 as stated: a token signed with another secret or algorithm, or an
\* issued token with its payload or signature segment altered, fails to
\* decode with "Invalid token".
C13_ForgedNeverDecodes ==
    (probe.result.status # "none" /\ probe.input \in Forged)
    => probe.result = DecodeFail("http401", "Invalid token")

\* C13: a token signed with another secret or algorithm, or an issued token
\* with its payload segment altered, or with its signature segment altered so
\* that it decodes to other bytes, fails to decode with "Invalid token".
C13_ForgedBytesNeverDecode ==
    (probe.result.status # "none" /\ probe.input \in Forged /\ ~SameSignatureBytes(probe.input))
    => probe.result = DecodeFail("http401", "Invalid token")

\* an issued value whose payload was altered, refused
C13_Witness ==
    /\ probe.result = DecodeFail("http401", "Invalid token")
    /\ \E v \in IssuedValues :
         /\ probe.input \in AlteredPayload(v)
         /\ probe.input # v

\* ---- what the store holds
\* the rows written by insert_model (row 1 was there before)
CreatedRows == RowIds \ {1}

\* C14: the token column of every row insert_model wrote is the SHA-512 hash
\* of an issued identifier, and no row holds a raw identifier or a raw bearer
\* value.
C14_OnlyHashStored ==
    /\ \A r \in CreatedRows :
         \E i \in 1..Len(issued) : tokens[r].token = hash_token(issued[i].ident)
    /\ \A r \in RowIds : \A i \in 1..Len(issued) :
         /\ tokens[r].token # issued[i].ident
         /\ tokens[r].token # issued[i].value

C14_Witness ==
    \E r \in CreatedRows : \E i \in 1..Len(issued) :
        /\ tokens[r].token = hash_token(issued[i].ident)
        /\ \E e \in cache : e.key = r /\ e.value = issued[i].value

\* the admin's creation and details pages, with the display cache
NextDisplay ==
    \/ insert_model
    \/ details_begin
    \/ details_finish
    \/ Elapse

SpecDisplay == Init /\ [][NextDisplay]_vars

C16_DisplayTtl ==
    viewed.raw_token # <<>> => viewed.age < TokenDisplayTtl * TicksPerSec

\* ---- the split of a compact token
\* C17 as stated: of a token whose last three characters are a number sig_len
\* no larger than what remains, the decoder takes exactly the last sig_len
\* characters of the remainder as the signature segment and all before them
\* as the payload segment (seen in the token it hands to jwt_decode).
C17_ExactBoundary ==
    LET suffix == SliceTail(probe.input, 3)
        rest == SubSeq(probe.input, 1, Len(probe.input) - 3)
    IN (probe.result.status # "none" /\ IntParsable(suffix) /\ IntOf(suffix) <= Len(rest)) =>
          probe.checking_token =
              HeaderSeg \o <<".">> \o SubSeq(rest, 1, Len(rest) - IntOf(suffix))
                        \o <<".">> \o SubSeq(rest, Len(rest) - IntOf(suffix) + 1, Len(rest))

\* the issuer alone
NextIssuer ==
    \/ Tick
    \/ make_api_token_call

SpecIssuer == Init /\ [][NextIssuer]_vars

\* ---- the shape of an issued value
HasDot(s) == \E k \in 1..Len(s) : s[k] = "."

\* C18: every issued value is payload segment, signature segment and suffix,
\* holds no '.', is longer than 3 characters, and its last 3 characters are
\* decimal digits that give the length of the signature segment.
C18_Shape ==
    \A i \in 1..Len(issued) :
        LET v == issued[i].value
            exp == IF issued[i].expires_at = None THEN DatetimeMax ELSE issued[i].expires_at
            payload_segment == PayloadSeg(issued[i].ident, Timestamp(exp))
            signature_segment == hmac[SigningInput(issued[i].ident, exp)]
        IN /\ v = payload_segment \o signature_segment \o SliceTail(v, 3)
           /\ ~HasDot(v)
           /\ Len(v) > 3
           /\ \A k \in (Len(v) - 2)..Len(v) : v[k] \in {"0", "1", "2", "3", "4", "5", "6", "7", "8", "9"}
           /\ IntOf(SliceTail(v, 3)) = Len(signature_segment)

C18_Witness ==
    \E i \in 1..Len(issued) :
        /\ SliceTail(issued[i].value, 3) = <<"0", "4", "3">>
        /\ Len(hmac[SigningInput(issued[i].ident, DatetimeMax)]) = 43
        /\ issued[i].expires_at = None

\* ---- the expiry on the wire
\* C19: a token issued with no expiry decodes to an expiry, datetime.max in
\* whole seconds, never to none.
C19_SentinelExpiry ==
    \A i \in 1..Len(issued) :
        (Probed(i) /\ issued[i].expires_at = None) =>
            /\ probe.result.status = "ok"
            /\ probe.result.exp = SecToTicks(DatetimeMaxSec)
            /\ probe.result.exp # None
            /\ probe.result.sub = issued[i].ident

C19_Witness ==
    \E i \in 1..Len(issued) :
        /\ Probed(i)
        /\ issued[i].expires_at = None
        /\ probe.result.exp = SecToTicks(DatetimeMaxSec)

\* ---- uniqueness
\* C20 as stated: over any sequence of calls of make_api_token the bearer
\* values are pairwise distinct and the hashed identifiers are pairwise
\* distinct.
C20_Unique ==
    \A i, j \in 1..Len(issued) :
        i # j => /\ issued[i].value # issued[j].value
                 /\ issued[i].hashed_value # issued[j].hashed_value

\* ---- the frame of verification
\* a step of verify_api_token: the call starts, or its lookup ends
VerifyStep == (vpc = "idle" /\ vpc' # "idle") \/ (vpc = "lookup" /\ vpc' = "done")

\* C21: no step of verify_api_token, whatever its outcome, adds or removes a
\* token row or changes a row's is_active, owner or expires_at.
C21_StoreUnchanged ==
    [][VerifyStep =>
         /\ Len(tokens') = Len(tokens)
         /\ \A r \in RowIds :
              /\ tokens'[r].token = tokens[r].token
              /\ tokens'[r].is_active = tokens[r].is_active
              /\ tokens'[r].user_id = tokens[r].user_id
              /\ tokens'[r].expires_at = tokens[r].expires_at
         /\ users' = users]_vars

C21_Witness ==
    /\ Checked
    /\ vresult.kind = "ok"
    /\ vtrace.queries = 1
    /\ vlocal.token.found
    /\ tokens[vlocal.token.id].is_active

\* ---- the bearer marker
\* the header value with the marker put in front, and with it taken off
WithMarker(value) == Marker \o <<" ">> \o value
WithoutMarker(value) ==
    IF Len(value) > Len(Marker) /\ SubSeq(value, 1, Len(Marker) + 1) = Marker \o <<" ">>
    THEN SubSeq(value, Len(Marker) + 2, Len(value)) ELSE value

\* C22: a request whose header is V and one whose header is 'Bearer V', at
\* the same clock and store, leave verify_api_token in the same place with
\* the same result and the same locals (credential, lookup key), hence with
\* the same outcome of the lookup that follows.
C22_MarkerOptional ==
    [][(vpc = "idle" /\ vpc' # "idle" /\ req'.present) =>
         \A twin \in {WithMarker(req'.header), WithoutMarker(req'.header)} :
            LET step == verify_sync(req'.method, TRUE, twin, hmac, now)
            IN /\ step.pc = vpc'
               /\ step.result = vresult'
               /\ step.local = vlocal']_vars

C22_Witness ==
    \E i \in 1..Len(issued) :
        /\ Checked
        /\ req.present
        /\ req.header = issued[i].value
        /\ vresult = Returned(issued[i].value)
        /\ verify_sync(req.method, TRUE, WithMarker(req.header), hmac, now).local.auth_token
             = issued[i].value

\* ---- the boundary of expiry
\* C23: an issued value whose expiry is the instant of issuance or earlier
\* (the clock never runs back, so: not later than the decode) is refused
\* with "Token expired"; and no issued value decodes at the very instant of
\* its whole-second expiry.
C23_BoundaryExpired ==
    \A i \in 1..Len(issued) :
        (Probed(i) /\ issued[i].expires_at # None) =>
            /\ issued[i].expires_at <= probe.at
                  => probe.result = DecodeFail("http401", "Token expired")
            /\ probe.at = WholeSeconds(i) => probe.result.status # "ok"

\* decoded at the very instant of a whole-second expiry
C23_Witness ==
    \E i \in 1..Len(issued) :
        /\ Probed(i)
        /\ issued[i].expires_at # None
        /\ issued[i].expires_at = probe.at
        /\ WholeSeconds(i) = probe.at
        /\ probe.at > 0
        /\ probe.result = DecodeFail("http401", "Token expired")

\* the public list of releases against the admin panel
NextPanel ==
    \/ get_active_releases_begin
    \/ get_active_releases_finish
    \/ panel_set_active_commit
    \/ panel_set_active_invalidate

SpecPanel == Init /\ [][NextPanel]_vars

\* ---- the cached pages of the public list
\* no call of get_active_releases or of _set_active is in flight
Quiescent == reader.pc = "idle" /\ panel.pc = "idle"

\* the page an entry holds is what the database gives for its key now
Current(e) == e.value = get_active_releases_rows(releases, e.key.offset, e.key.limit)

\* C24 as stated: whatever the interleaving of get_active_releases with an
\* activation or deactivation from the admin panel, once both have finished
\* no cached page holds content read before the committed change.
C24_NoStalePage == Quiescent => \A e \in pages : Current(e)

\* the public list of releases against the authenticated API
NextReleases ==
    \/ get_active_releases_begin
    \/ get_active_releases_finish
    \/ create_release
    \/ update_release
    \/ activate_release
    \/ deactivate_release
    \/ delete_release

SpecReleases == Init /\ [][NextReleases]_vars

\* a handler of the authenticated API changes the releases and returns
ApiMutation ==
    \/ create_release
    \/ update_release
    \/ activate_release
    \/ deactivate_release
    \/ delete_release

\* C25 as stated: when a release mutation through the authenticated API has
\* returned, the cache holds no page of the active releases.
C25_NoPageAfterMutation ==
    [][ApiMutation => ~\E e \in pages' : e.key.prefix = PagePrefix]_vars

\* the unit of work and the management command
NextUow ==
    \/ uow_enter
    \/ uow_mark_for_commit
    \/ uow_aexit
    \/ update_user_call

SpecUow == Init /\ [][NextUow]_vars

\* ---- the unit of work: what its exit does to the session
Exited == uow.pc = "exited"

\* the calls __aexit__ made, after the begin of __aenter__
ExitCalls == IF Len(uow.calls) > 0 /\ uow.calls[1] = "begin" THEN Tail(uow.calls) ELSE uow.calls

Called(name) == \E k \in 1..Len(ExitCalls) : ExitCalls[k] = name

\* the call is made and the next call is the other one
Followed(first, second) ==
    \E k \in 1..(Len(ExitCalls) - 1) : ExitCalls[k] = first /\ ExitCalls[k + 1] = second

\* a call that was made is of a kind that fails
SomeCallRaised == \E k \in 1..Len(ExitCalls) : uow.faults[ExitCalls[k]]

\* C26: with an own session, an exit with no exception flushes, then commits
\* (marked or not), then closes; an exit with an exception flushes, then rolls
\* back, never commits, and closes.  Each step is taken unless the one before
\* it raised; the close is made in any case.
C26_Standalone ==
    (Exited /\ uow.owns_session) =>
        /\ ExitCalls[1] = "flush"
        /\ Called("close")
        /\ uow.exc = "" =>
              /\ ~uow.faults.flush => ExitCalls[2] = "commit"
              /\ (~uow.faults.flush /\ ~uow.faults.commit) =>
                    ExitCalls = <<"flush", "commit", "close">> \/
                    (uow.faults.close /\ ExitCalls = <<"flush", "commit", "close", "close">>)
        /\ uow.exc # "" =>
              /\ ~Called("commit")
              /\ ~uow.faults.flush => ExitCalls[2] = "rollback"
              /\ (~uow.faults.flush /\ ~uow.faults.rollback) =>
                    ExitCalls = <<"flush", "rollback", "close">> \/
                    (uow.faults.close /\ ExitCalls = <<"flush", "rollback", "close", "close">>)

\* an unmarked unit of work with an own session has committed and closed
C26_Witness ==
    /\ Exited
    /\ uow.owns_session
    /\ ~uow.marked
    /\ uow.exc = ""
    /\ uow.raised = ""
    /\ ExitCalls = <<"flush", "commit", "close">>

\* C27: with an injected session, the exit commits only when mark_for_commit
\* was called and the block raised nothing (and then it does, the flush
\* having passed), rolls back when the block raised (the flush having
\* passed) and then never commits, does neither with no mark and no
\* exception, and never closes the session.
C27_Dependency ==
    (Exited /\ ~uow.owns_session) =>
        /\ Called("commit") => (uow.marked /\ uow.exc = "")
        /\ (uow.marked /\ uow.exc = "" /\ ~uow.faults.flush) => Called("commit")
        /\ (uow.exc # "" /\ ~uow.faults.flush) => Called("rollback")
        /\ (~uow.marked /\ uow.exc = "") => (~Called("commit") /\ ~Called("rollback"))
        /\ ~Called("close")

\* an unmarked unit of work on an injected session has left it as it was
C27_Witness ==
    /\ Exited
    /\ ~uow.owns_session
    /\ ~uow.marked
    /\ uow.exc = ""
    /\ ExitCalls = <<"flush">>
    /\ uow.raised = ""

\* C28 as stated: when session.commit raises, a rollback is attempted and the
\* commit's error is raised; an own session is closed on every path through
\* the exit; an error of flush, commit or rollback reaches the caller.
C28_CommitErrorReraised ==
    Exited =>
        /\ (Called("commit") /\ uow.faults.commit) =>
              (Followed("commit", "rollback") /\ uow.raised = "CommitError")
        /\ uow.owns_session => Called("close")
        /\ SomeCallRaised => uow.raised # ""

\* C28: when session.commit raises, a rollback is attempted and the commit's
\* error is raised, unless the rollback, or the close of an own session that
\* follows, raises too: then the last such error is raised; an own session is closed on
\* every path through the exit; an error of any call reaches the caller.
C28_FailurePaths ==
    Exited =>
        /\ (Called("commit") /\ uow.faults.commit) =>
              /\ Followed("commit", "rollback")
              /\ uow.raised = IF uow.owns_session /\ uow.faults.close THEN "CloseError"
                              ELSE IF uow.faults.rollback THEN "RollbackError"
                              ELSE "CommitError"
        /\ uow.owns_session => (Called("close") /\ ExitCalls[Len(ExitCalls)] = "close")
        /\ SomeCallRaised => uow.raised # ""

\* a commit that failed on an own session: rolled back, closed, re-raised
C28_Witness ==
    /\ Exited
    /\ uow.owns_session
    /\ uow.faults.commit
    /\ ExitCalls = <<"flush", "commit", "rollback", "close">>
    /\ uow.raised = "CommitError"

\* the in-memory cache under get, set, invalidate and the clock
NextMemory ==
    \/ memory_set_call
    \/ memory_get_call
    \/ memory_invalidate_call
    \/ memory_wait

SpecMemory == Init /\ [][NextMemory]_vars

\* ---- the in-memory cache
TtlTicks == DEFAULT_CACHE_TTL * TicksPerSec

\* C29: a get of a key that was set, and not invalidated since, returns the
\* value set as long as no more than the ttl has passed since that set, and
\* None once more has passed; a get that met an expired entry has removed it;
\* and the two dictionaries hold the same keys after every call.
C29_Expiry ==
    /\ DOMAIN mem.data = DOMAIN mem.last_update
    /\ (memcall.op = "get" /\ lastset[memcall.key].live) =>
          /\ memcall.at - lastset[memcall.key].at <= TtlTicks
                => memcall.value = lastset[memcall.key].value
          /\ memcall.at - lastset[memcall.key].at > TtlTicks
                => /\ memcall.value = NoValue
                   /\ memcall.key \notin DOMAIN mem.data
                   /\ memcall.key \notin DOMAIN mem.last_update

\* a get exactly one ttl after the set returned the value, and another, later
\* than that, found the entry expired and removed it
C29_Witness ==
    /\ memcall.op = "get"
    /\ lastset[memcall.key].live
    /\ memcall.at - lastset[memcall.key].at > TtlTicks
    /\ memcall.value = NoValue
    /\ \E k \in MemKeys \ {memcall.key} : k \in DOMAIN mem.data

\* ---- the management command
\* C30 as stated: update_user returns True only if the user's new password
\* hash was committed; when the lookup, the flush or the commit fails it
\* returns False.
C30_TrueOnlyIfCommitted ==
    mgmt.called =>
        /\ mgmt.returned => mgmt.committed
        /\ (mgmt.lookup_raises \/ mgmt.faults.flush \/ mgmt.faults.commit) => ~mgmt.returned

====
